---- MODULE Spec2Model ----
(***************************************************************************)
(* Model of app.py: the single AppState row (visited, planned), the Trip   *)
(* table, the static country -> cities catalog file, and the HTTP handlers *)
(* api_set_state, api_add_trip, api_delete_trip and api_suggestions.       *)
(*                                                                         *)
(* Strings are sequences of character codes (32 is the space), so that     *)
(* str.strip, sorted, " ".join and the tokenizer are computed, not assumed.*)
(* JSON values are tagged records: [t |-> "str", v |-> chars],             *)
(* [t |-> "num", v |-> n], [t |-> "list", v |-> <<values>>], [t |-> "null"]*)
(* and [t |-> "absent"] for a key the payload does not carry.              *)
(* Scores are fixed-point numbers in thousandths (0.10 is 100).            *)
(***************************************************************************)
EXTENDS Integers, Sequences, FiniteSets, TLC

VARIABLES visited, planned, trips, catalogFile, resp

vars == <<visited, planned, trips, catalogFile, resp>>

(***************************************************************************)
(* Bounds of the model.                                                    *)
(***************************************************************************)
MaxTripId == 2

(***************************************************************************)
(* Strings.                                                                *)
(***************************************************************************)
AA == <<97, 97>>
BB == <<98, 98>>
ZED == <<122, 101, 100>>
City(i) == <<99, 96 + i>>

JStr(s) == [t |-> "str", v |-> s]
JNum(n) == [t |-> "num", v |-> n]
JList(l) == [t |-> "list", v |-> l]
JNull == [t |-> "null"]
Absent == [t |-> "absent"]

RECURSIVE LStrip(_)
LStrip(s) == IF s # <<>> /\ Head(s) = 32 THEN LStrip(Tail(s)) ELSE s

RECURSIVE RStrip(_)
RStrip(s) == IF s # <<>> /\ s[Len(s)] = 32 THEN RStrip(SubSeq(s, 1, Len(s) - 1)) ELSE s

Strip(s) == RStrip(LStrip(s))

RECURSIVE StrLess(_, _)
StrLess(a, b) ==
  IF b = <<>> THEN FALSE
  ELSE IF a = <<>> THEN TRUE
  ELSE IF Head(a) # Head(b) THEN Head(a) < Head(b)
  ELSE StrLess(Tail(a), Tail(b))

RECURSIVE Sorted(_)
Sorted(S) ==
  IF S = {} THEN <<>>
  ELSE LET m == CHOOSE x \in S : \A y \in S \ {x} : StrLess(x, y)
       IN <<m>> \o Sorted(S \ {m})

RECURSIVE Digits(_)
Digits(n) == IF n < 10 THEN <<48 + n>> ELSE Digits(n \div 10) \o <<48 + (n % 10)>>

\* str(x) for the JSON values that occur as list elements
Str(x) ==
  CASE x.t = "str" -> x.v
    [] x.t = "num" -> Digits(x.v)
    [] x.t = "null" -> <<78, 111, 110, 101>>

StrAll(l) == [i \in DOMAIN l |-> Str(l[i])]

UniqSorted(values) ==
  Sorted({Strip(values[i]) : i \in DOMAIN values} \ {<<>>})

\* payload.get(key) or "" for a key that is a string, null or absent
OrEmpty(x) == IF x.t = "str" THEN x.v ELSE <<>>

\* payload.get(key, [])
GetOrList(x) == IF x.t = "absent" THEN JList(<<>>) ELSE x

IsList(x) == x.t = "list"

Range(s) == {s[i] : i \in DOMAIN s}

(***************************************************************************)
(* Dates: "%Y-%m-%d" with a four-digit year.                               *)
(***************************************************************************)
IsDigit(c) == c >= 48 /\ c <= 57

RECURSIVE SplitOn(_, _)
SplitOn(s, c) ==
  IF \A i \in DOMAIN s : s[i] # c THEN <<s>>
  ELSE LET k == CHOOSE i \in DOMAIN s : s[i] = c /\ \A j \in 1..(i - 1) : s[j] # c
       IN <<SubSeq(s, 1, k - 1)>> \o SplitOn(SubSeq(s, k + 1, Len(s)), c)

RECURSIVE ToNat(_)
ToNat(s) == IF s = <<>> THEN 0 ELSE 10 * ToNat(SubSeq(s, 1, Len(s) - 1)) + (s[Len(s)] - 48)

AllDigits(s) == s # <<>> /\ \A i \in DOMAIN s : IsDigit(s[i])

IsLeap(y) == (y % 4 = 0 /\ y % 100 # 0) \/ y % 400 = 0

DaysIn(y, m) ==
  IF m = 2 THEN (IF IsLeap(y) THEN 29 ELSE 28)
  ELSE IF m \in {4, 6, 9, 11} THEN 30 ELSE 31

NoDate == [none |-> TRUE]
ValueError == [raised |-> "ValueError"]

\* datetime.strptime(value, "%Y-%m-%d").date()
Strptime(s) ==
  LET p == SplitOn(s, 45)
  IN IF Len(p) = 3 /\ AllDigits(p[1]) /\ Len(p[1]) = 4
        /\ AllDigits(p[2]) /\ Len(p[2]) <= 2 /\ AllDigits(p[3]) /\ Len(p[3]) <= 2
        /\ ToNat(p[1]) >= 1 /\ ToNat(p[2]) \in 1..12
        /\ ToNat(p[3]) \in 1..DaysIn(ToNat(p[1]), ToNat(p[2]))
     THEN [y |-> ToNat(p[1]), m |-> ToNat(p[2]), d |-> ToNat(p[3])]
     ELSE ValueError

ParseDate(x) ==
  IF x.t # "str" \/ x.v = <<>> THEN NoDate ELSE Strptime(x.v)

(***************************************************************************)
(* The catalog file static/data/country_cities.json.  A file is            *)
(* [exists |-> BOOLEAN, data |-> <<[k |-> chars, v |-> JSON value]>>].     *)
(***************************************************************************)
MaxCities == 9

MessyCities(n) ==
  [i \in 1..n |-> JStr(City(n + 1 - i))] \o <<JStr(<<32>> \o City(1)), JStr(<<>>), JStr(<<32>>)>>

MissingFile == [exists |-> FALSE, data |-> <<>>]
EmptyFile == [exists |-> TRUE, data |-> <<>>]
MainFile ==
  [exists |-> TRUE,
   data |-> << [k |-> <<32>> \o AA, v |-> JList(MessyCities(MaxCities))],
               [k |-> BB, v |-> JList(<<JStr(City(2) \o <<32>>), JStr(City(1))>>)],
               [k |-> ZED, v |-> JStr(City(1))] >>]
\* no entry for "aa", and an entry without cities for "bb"
SparseFile ==
  [exists |-> TRUE, data |-> << [k |-> BB, v |-> JList(<<JStr(<<32>>)>>)] >>]
\* no entry for "aa", and cities for "bb"
PartialFile ==
  [exists |-> TRUE, data |-> << [k |-> BB \o <<32>>, v |-> JList(<<JStr(City(2))>>)] >>]

CatalogFiles == {MissingFile, EmptyFile, MainFile, SparseFile, PartialFile}

EmptyDict == [x \in {} |-> <<>>]

Put(f, k, v) == [x \in DOMAIN f \cup {k} |-> IF x = k THEN v ELSE f[x]]

RECURSIVE NormaliseItems(_, _)
NormaliseItems(items, out) ==
  IF items = <<>> THEN out
  ELSE LET e == Head(items)
       IN NormaliseItems(Tail(items),
            IF IsList(e.v) THEN Put(out, Strip(e.k), UniqSorted(StrAll(e.v.v))) ELSE out)

LoadOrBuiltIn(file) ==
  IF ~file.exists THEN Put(EmptyDict, AA, <<City(1)>>) ELSE NormaliseItems(file.data, EmptyDict)

LoadCountryCityCatalog(file) ==
  IF ~file.exists THEN EmptyDict ELSE NormaliseItems(file.data, EmptyDict)

(***************************************************************************)
(* State after db.create_all() and _ensure_state_row() on a fresh database.*)
(* trips is the Trip table in the order of created_at descending.          *)
(***************************************************************************)
Init ==
  /\ visited = <<>>
  /\ planned = <<>>
  /\ trips = <<>>
  /\ catalogFile \in CatalogFiles
  /\ resp = [op |-> "none", status |-> 0]

(***************************************************************************)
(* POST /api/state                                                         *)
(***************************************************************************)
ApiSetState(pVisited, pPlanned) ==
  LET v == GetOrList(pVisited)
      p == GetOrList(pPlanned)
  IN IF ~IsList(v) \/ ~IsList(p)
     THEN /\ resp' = [op |-> "set_state", status |-> 400, ok |-> FALSE,
                      error |-> "visited/planned must be lists"]
          /\ UNCHANGED <<visited, planned, trips, catalogFile>>
     ELSE /\ visited' = UniqSorted(StrAll(v.v))
          /\ planned' = UniqSorted(StrAll(p.v))
          /\ resp' = [op |-> "set_state", status |-> 200, ok |-> TRUE,
                      visited |-> visited', planned |-> planned']
          /\ UNCHANGED <<trips, catalogFile>>

(***************************************************************************)
(* POST /api/trips                                                         *)
(***************************************************************************)
\* the rowid the database gives a new Trip row
NextTripId ==
  IF trips = <<>> THEN 1
  ELSE 1 + (CHOOSE m \in {trips[i].id : i \in DOMAIN trips} :
              \A i \in DOMAIN trips : trips[i].id <= m)

\* the auto-add of the country to visited and its removal from planned
VisitedAfterTrip(country) ==
  IF country \notin Range(visited) THEN UniqSorted(visited \o <<country>>) ELSE visited

PlannedAfterTrip(country) ==
  IF country \notin Range(visited)
  THEN SelectSeq(planned, LAMBDA c : c # country)
  ELSE planned

ApiAddTrip(pCountry, pStart, pEnd, pCities, pCompanions, pNotes) ==
  LET country == Strip(OrEmpty(pCountry))
      start_date == ParseDate(pStart)
      end_date == ParseDate(pEnd)
      cities == GetOrList(pCities)
      companions == GetOrList(pCompanions)
      notes == Strip(OrEmpty(pNotes))
  IN IF country = <<>>
     THEN /\ resp' = [op |-> "add_trip", status |-> 400, ok |-> FALSE,
                      error |-> "country is required"]
          /\ UNCHANGED <<visited, planned, trips, catalogFile>>
     ELSE IF start_date = ValueError \/ end_date = ValueError
     THEN /\ resp' = [op |-> "add_trip", status |-> 500, ok |-> FALSE,
                      error |-> "ValueError"]
          /\ UNCHANGED <<visited, planned, trips, catalogFile>>
     ELSE IF ~IsList(cities) \/ ~IsList(companions)
     THEN /\ resp' = [op |-> "add_trip", status |-> 400, ok |-> FALSE,
                      error |-> "cities/companions must be lists"]
          /\ UNCHANGED <<visited, planned, trips, catalogFile>>
     ELSE /\ NextTripId <= MaxTripId
          /\ trips' = << [id |-> NextTripId,
                          country |-> country,
                          start_date |-> start_date,
                          end_date |-> end_date,
                          cities |-> UniqSorted(StrAll(cities.v)),
                          companions |-> UniqSorted(StrAll(companions.v)),
                          notes |-> notes] >> \o trips
          /\ visited' = VisitedAfterTrip(country)
          /\ planned' = PlannedAfterTrip(country)
          /\ resp' = [op |-> "add_trip", status |-> 200, ok |-> TRUE,
                      trip_id |-> NextTripId]
          /\ UNCHANGED catalogFile

(***************************************************************************)
(* DELETE /api/trips/<trip_id>                                             *)
(***************************************************************************)
ApiDeleteTrip(trip_id) ==
  IF \A i \in DOMAIN trips : trips[i].id # trip_id
  THEN /\ resp' = [op |-> "delete_trip", status |-> 404, ok |-> FALSE,
                   error |-> "trip not found"]
       /\ UNCHANGED <<visited, planned, trips, catalogFile>>
  ELSE /\ trips' = SelectSeq(trips, LAMBDA t : t.id # trip_id)
       /\ resp' = [op |-> "delete_trip", status |-> 200, ok |-> TRUE]
       /\ UNCHANGED <<visited, planned, catalogFile>>

(***************************************************************************)
(* GET /api/suggestions: documents and candidates                          *)
(***************************************************************************)
RECURSIVE Join(_)
Join(l) ==
  IF l = <<>> THEN <<>>
  ELSE IF Len(l) = 1 THEN l[1]
  ELSE l[1] \o <<32>> \o Join(Tail(l))

TripDoc(t) ==
  Strip(Join(<<Strip(t.country), Join(t.cities), Strip(t.notes), Join(t.companions)>>))

VisitedDocs ==
  LET docs == [i \in DOMAIN trips |-> TripDoc(trips[i])]
  IN SelectSeq(docs, LAMBDA d : d # <<>>)

DictGet(d, k) == IF k \in DOMAIN d THEN d[k] ELSE <<>>

\* country_cities.get(country, [])
CitiesOfOrItself(country_cities, country) ==
  IF country \in DOMAIN country_cities THEN country_cities[country] ELSE <<country>>

CitiesOf(country_cities, country) == DictGet(country_cities, country)

RECURSIVE CandidatesOfCatalog(_, _)
CandidatesOfCatalog(plannedList, country_cities) ==
  LET keys == Sorted(DOMAIN country_cities)
  IN IF keys = <<>> THEN <<>>
     ELSE [i \in DOMAIN country_cities[keys[1]] |->
             [country |-> keys[1], city |-> country_cities[keys[1]][i],
              doc |-> keys[1] \o <<32>> \o country_cities[keys[1]][i]]]
          \o CandidatesOfCatalog(plannedList,
                [k \in DOMAIN country_cities \ {keys[1]} |-> country_cities[k]])

RECURSIVE Candidates(_, _)
Candidates(plannedList, country_cities) ==
  IF plannedList = <<>> THEN <<>>
  ELSE LET country == Head(plannedList)
           cities == CitiesOf(country_cities, country)
       IN [i \in DOMAIN cities |->
             [country |-> country, city |-> cities[i],
              doc |-> country \o <<32>> \o cities[i]]]
          \o Candidates(Tail(plannedList), country_cities)

(***************************************************************************)
(* TfidfVectorizer(stop_words="english", ngram_range=(1, 2)) followed by   *)
(* the mean of the visited rows and cosine_similarity, in thousandths.     *)
(* Within the bounds the vocabulary stays far below max_features.          *)
(***************************************************************************)
LnMilli ==
  <<0, 693, 1099, 1386, 1609, 1792, 1946, 2079, 2197, 2303, 2398, 2485, 2565,
    2639, 2708, 2773, 2833, 2890, 2944, 2996, 3045, 3091, 3135, 3178, 3219,
    3258, 3296, 3332, 3367, 3401, 3434, 3466, 3497, 3526, 3555, 3584, 3611,
    3638, 3664, 3689>>

\* the stop words of at most two letters
StopWords ==
  { <<97, 109>>, <<97, 110>>, <<97, 115>>, <<97, 116>>, <<98, 101>>, <<98, 121>>,
    <<99, 111>>, <<100, 101>>, <<100, 111>>, <<101, 103>>, <<103, 111>>, <<104, 101>>,
    <<105, 101>>, <<105, 102>>, <<105, 110>>, <<105, 115>>, <<105, 116>>, <<109, 101>>,
    <<109, 121>>, <<110, 111>>, <<111, 102>>, <<111, 110>>, <<111, 114>>, <<114, 101>>,
    <<115, 111>>, <<116, 111>>, <<117, 110>>, <<117, 112>>, <<117, 115>>, <<119, 101>> }

Lower(s) == [i \in DOMAIN s |-> IF s[i] >= 65 /\ s[i] <= 90 THEN s[i] + 32 ELSE s[i]]

Tokens(doc) ==
  SelectSeq(SplitOn(Lower(doc), 32), LAMBDA w : Len(w) >= 2 /\ w \notin StopWords)

\* the unigrams followed by the bigrams of adjacent tokens
Terms(doc) ==
  LET tk == Tokens(doc)
  IN tk \o [i \in 1..(Len(tk) - 1) |-> tk[i] \o <<32>> \o tk[i + 1]]

Tf(terms, t) == Cardinality({i \in DOMAIN terms : terms[i] = t})

RECURSIVE SumOver(_, _)
SumOver(f, S) ==
  IF S = {} THEN 0
  ELSE LET x == CHOOSE y \in S : TRUE
       IN f[x] + SumOver(f, S \ {x})

SumFn(f) == SumOver(f @@ <<>>, DOMAIN f)

RECURSIVE SqrtIter(_, _)
SqrtIter(n, x) ==
  LET y == (x + n \div x) \div 2
  IN IF y >= x THEN x ELSE SqrtIter(n, y)

ISqrt(n) == IF n = 0 THEN 0 ELSE SqrtIter(n, n)

\* a function as an explicit table of its values
Table(f) == f @@ <<>>

\* sims[j] for the candidate documents, given the visited documents
Similarities(visited_docs, candidate_docs) ==
  LET all_docs == visited_docs \o candidate_docs
      n == Len(all_docs)
      nv == Len(visited_docs)
      terms == Table([i \in 1..n |-> Terms(all_docs[i])])
      termSet == Table([i \in 1..n |-> Range(terms[i])])
      vocabulary == UNION {termSet[i] : i \in 1..n}
      idf == Table([t \in vocabulary |->
                LnMilli[1 + n] - LnMilli[1 + Cardinality({i \in 1..n : t \in termSet[i]})] + 1000])
      raw == Table([i \in 1..n |-> Table([t \in termSet[i] |-> Tf(terms[i], t) * idf[t]])])
      norm == Table([i \in 1..n |-> ISqrt(SumFn([t \in termSet[i] |-> raw[i][t] * raw[i][t]]))])
      X == Table([i \in 1..n |-> Table([t \in termSet[i] |->
              IF norm[i] = 0 THEN 0 ELSE (raw[i][t] * 1000) \div norm[i]])])
      prefTerms == UNION {termSet[i] : i \in 1..nv}
      pref_vec == Table([t \in prefTerms |->
                     SumFn([i \in {k \in 1..nv : t \in termSet[k]} |-> X[i][t]]) \div nv])
      prefNorm == ISqrt(SumFn([t \in prefTerms |-> pref_vec[t] * pref_vec[t]]))
      candNorm == Table([j \in 1..Len(candidate_docs) |->
                     ISqrt(SumFn([t \in termSet[nv + j] |-> X[nv + j][t] * X[nv + j][t]]))])
  IN [j \in 1..Len(candidate_docs) |->
        IF prefNorm = 0 \/ candNorm[j] = 0 THEN 0
        ELSE (SumFn([t \in termSet[nv + j] \cap prefTerms |-> X[nv + j][t] * pref_vec[t]]) * 1000)
               \div (candNorm[j] * prefNorm)]

(***************************************************************************)
(* GET /api/suggestions: ranking and selection                             *)
(***************************************************************************)
StarterScore == 100
StarterCap == 8
TopK == 8

StarterReason == [kind |-> "starter"]

\* f"Matches your travel profile (score {score:.2f})."
MatchReason(score) == [kind |-> "match", shown |-> (score + 5) \div 10]

InsertBeforeTies(sorted, x) ==
  LET k == Cardinality({i \in DOMAIN sorted : sorted[i].score > x.score})
  IN SubSeq(sorted, 1, k) \o <<x>> \o SubSeq(sorted, k + 1, Len(sorted))

\* the place of x in a list already ordered by sort(key=score, reverse=True)
InsertByScore(sorted, x) ==
  LET k == Cardinality({i \in DOMAIN sorted : sorted[i].score >= x.score})
  IN SubSeq(sorted, 1, k) \o <<x>> \o SubSeq(sorted, k + 1, Len(sorted))

RECURSIVE SortByScore(_, _)
SortByScore(todo, sorted) ==
  IF todo = <<>> THEN sorted
  ELSE SortByScore(Tail(todo), InsertByScore(sorted, Head(todo)))

Append1(out, country, item) ==
  Put(out, country, DictGet(out, country) \o <<item>>)

\* out.setdefault(country, []).append(...) for every candidate, then out[k][:8]
RECURSIVE StarterFill(_, _)
StarterFill(cands, out) ==
  IF cands = <<>> THEN out
  ELSE StarterFill(Tail(cands),
         Append1(out, Head(cands).country,
                 [city |-> Head(cands).city, score |-> StarterScore, reason |-> StarterReason]))

StarterKeepAll(l) == l

StarterCut(l) == SubSeq(l, 1, IF Len(l) < StarterCap THEN Len(l) ELSE StarterCap)

StarterOut(cands) ==
  LET out == StarterFill(cands, EmptyDict)
  IN [k \in DOMAIN out |-> StarterCut(out[k])]

BucketFullLate(l) == Len(l) > TopK

BucketFull(l) == Len(l) >= TopK

RECURSIVE TopPerCountry(_, _)
TopPerCountry(scored, out) ==
  IF scored = <<>> THEN out
  ELSE LET c == Head(scored)
           out1 == IF c.country \in DOMAIN out THEN out ELSE Put(out, c.country, <<>>)
       IN TopPerCountry(Tail(scored),
            IF BucketFull(out1[c.country]) THEN out1
            ELSE Append1(out1, c.country,
                   [city |-> c.city, score |-> c.score, reason |-> MatchReason(c.score)]))

Scored(cands, visited_docs) ==
  LET sims == Similarities(visited_docs, [i \in DOMAIN cands |-> cands[i].doc])
  IN <<>> \o [i \in DOMAIN cands |->
        [country |-> cands[i].country, city |-> cands[i].city, score |-> sims[i]]]

SuggestionsResponse ==
  LET visited_docs == VisitedDocs
      country_cities == LoadCountryCityCatalog(catalogFile)
      candidates == Candidates(planned, country_cities)
  IN IF DOMAIN country_cities = {}
     THEN [op |-> "suggestions", status |-> 400, ok |-> FALSE,
           error |-> "Missing or empty static/data/country_cities.json"]
     ELSE IF candidates = <<>>
     THEN [op |-> "suggestions", status |-> 200, ok |-> TRUE,
           suggestions |-> EmptyDict, note |-> "No candidates found"]
     ELSE IF visited_docs = <<>>
     THEN [op |-> "suggestions", status |-> 200, ok |-> TRUE,
           suggestions |-> StarterOut(candidates)]
     ELSE [op |-> "suggestions", status |-> 200, ok |-> TRUE,
           suggestions |-> TopPerCountry(SortByScore(Scored(candidates, visited_docs), <<>>),
                                         EmptyDict)]

ApiSuggestionsConsuming ==
  /\ resp' = SuggestionsResponse
  /\ planned' = <<>>
  /\ UNCHANGED <<visited, trips, catalogFile>>

ApiSuggestions ==
  /\ resp' = SuggestionsResponse
  /\ UNCHANGED <<visited, planned, trips, catalogFile>>

(***************************************************************************)
(* Requests                                                                *)
(***************************************************************************)
ListInputs ==
  { Absent, JStr(AA), JList(<<JStr(<<32>> \o AA)>>),
    JList(<<JStr(BB), JStr(<<32>> \o AA), JStr(BB), JStr(<<>>)>>) }

CountryInputs == { Absent, JStr(<<32>>), JStr(<<32>> \o AA \o <<32>>), JStr(BB) }

\* "2024-02-29" is a date, "2023-02-29" is not
StartInputs ==
  { JStr(<<50, 48, 50, 52, 45, 48, 50, 45, 50, 57>>),
    JStr(<<50, 48, 50, 51, 45, 48, 50, 45, 50, 57>>) }

EndInputs == { Absent, JStr(<<50, 48, 50, 52, 45, 49, 51, 45, 48, 49>>) }

CityInputs ==
  { JStr(City(1)),
    JList(<<JStr(City(MaxCities)), JStr(<<32>> \o City(1)), JStr(City(MaxCities)), JStr(<<32>>)>>) }

CompanionInputs ==
  { JStr(ZED), JList(<<JStr(ZED \o <<32>>), JNum(12), JStr(ZED)>>) }

NoteInputs == { Absent, JStr(<<32, 32>>) }

Next ==
  \/ \E v \in ListInputs, p \in ListInputs : ApiSetState(v, p)
  \/ \E c \in CountryInputs, s \in StartInputs, e \in EndInputs, ci \in CityInputs,
        co \in CompanionInputs, n \in NoteInputs : ApiAddTrip(c, s, e, ci, co, n)
  \/ \E id \in 1..MaxTripId : ApiDeleteTrip(id)
  \/ ApiSuggestions

Spec == Init /\ [][Next]_vars

(***************************************************************************)
(* Properties.  resp is the response of the last request, so a response of *)
(* api_suggestions is always read together with the state it was computed *)
(* from.                                                                   *)
(***************************************************************************)
Catalog == LoadCountryCityCatalog(catalogFile)

CatalogEmpty ==
  ~catalogFile.exists \/ \A i \in DOMAIN catalogFile.data : ~IsList(catalogFile.data[i].v)

Suggested == resp.op = "suggestions" /\ resp.status = 200 /\ "suggestions" \in DOMAIN resp

Min(a, b) == IF a < b THEN a ELSE b

NoPlannedCities ==
  \A i \in DOMAIN planned : planned[i] \notin DOMAIN Catalog \/ Catalog[planned[i]] = <<>>

\* C1: with a non-empty catalog, at least one candidate and a non-empty
\* profile, every per-country list of the suggestions mapping has at most 8
\* entries and its scores never increase along the list.
C1_CappedAndSorted ==
  (Suggested /\ VisitedDocs # <<>>) =>
    \A k \in DOMAIN resp.suggestions :
      LET l == resp.suggestions[k]
      IN /\ Len(l) <= 8
         /\ \A i \in 1..(Len(l) - 1) : l[i].score >= l[i + 1].score

C1_Witness ==
  /\ Suggested /\ VisitedDocs # <<>>
  /\ AA \in DOMAIN resp.suggestions /\ BB \in DOMAIN resp.suggestions
  /\ Len(resp.suggestions[AA]) = 8
  /\ Len(Catalog[AA]) > 8
  /\ resp.suggestions[AA][1].score > resp.suggestions[AA][8].score

\* C2: no suggestion returned for a country C names a city that is among the
\* cities of a stored trip whose country is C.
C2_OnlyUnvisitedCities ==
  Suggested =>
    \A k \in DOMAIN resp.suggestions : \A j \in DOMAIN resp.suggestions[k] :
      \A i \in DOMAIN trips :
        trips[i].country = k => resp.suggestions[k][j].city \notin Range(trips[i].cities)

\* C3 as stated: whenever the planned list is empty, api_suggestions returns
\* a success with an empty suggestions mapping, whatever the catalog.
C3_EmptyPlannedAlwaysSucceeds ==
  (resp.op = "suggestions" /\ planned = <<>>) =>
    (Suggested /\ resp.ok /\ DOMAIN resp.suggestions = {})

\* C3 amended: with an empty planned list, api_suggestions returns a success
\* with an empty mapping and the advisory note when the catalog is not empty,
\* and the status 400 catalog error when the catalog is missing or empty.
C3_EmptyPlanned ==
  (resp.op = "suggestions" /\ planned = <<>>) =>
    IF CatalogEmpty
    THEN resp.status = 400 /\ ~resp.ok /\ "suggestions" \notin DOMAIN resp
    ELSE Suggested /\ resp.ok /\ DOMAIN resp.suggestions = {} /\ "note" \in DOMAIN resp

C3_Witness ==
  /\ resp.op = "suggestions" /\ planned = <<>> /\ trips # <<>>
  /\ ~CatalogEmpty /\ \E k \in DOMAIN Catalog : Catalog[k] # <<>>
  /\ Suggested /\ DOMAIN resp.suggestions = {}

\* C4: with a missing or empty catalog api_suggestions answers ok false with
\* status 400 and no suggestions mapping, whatever the planned list and trips.
C4_CatalogUnavailable ==
  (resp.op = "suggestions" /\ (~catalogFile.exists \/ catalogFile.data = <<>>)) =>
    (resp.status = 400 /\ ~resp.ok /\ "suggestions" \notin DOMAIN resp)

C4_Witness ==
  /\ resp.op = "suggestions" /\ ~catalogFile.exists
  /\ planned # <<>> /\ trips # <<>>
  /\ resp.status = 400

\* C5: cold start.  With no trip document and at least one candidate, every
\* suggestion has score 0.10 and the starter reason, and the list of a
\* country is the first min(8, n) of its n catalog cities in catalog order.
C5_ColdStart ==
  (resp.op = "suggestions" /\ VisitedDocs = <<>> /\ ~CatalogEmpty /\ ~NoPlannedCities) =>
    /\ Suggested
    /\ DOMAIN resp.suggestions =
         {c \in Range(planned) : c \in DOMAIN Catalog /\ Catalog[c] # <<>>}
    /\ \A k \in DOMAIN resp.suggestions :
         LET l == resp.suggestions[k]
             n == Len(Catalog[k])
         IN /\ Len(l) = Min(8, n)
            /\ \A j \in DOMAIN l :
                 /\ l[j].city = Catalog[k][j]
                 /\ l[j].score = 100
                 /\ l[j].reason = [kind |-> "starter"]

C5_Witness ==
  /\ Suggested /\ VisitedDocs = <<>>
  /\ AA \in DOMAIN resp.suggestions /\ BB \in DOMAIN resp.suggestions
  /\ Len(Catalog[AA]) > 8
  /\ Len(resp.suggestions[AA]) = 8
  /\ resp.suggestions[AA][8].score = 100

\* C6: with a non-empty profile the list of a country is the first min(8, n)
\* of its n candidates ordered by score descending, equal scores in
\* generation order: listed entries are ranked that way among themselves, and
\* every omitted candidate ranks after every listed one.
Before(sc, i, j) ==
  sc[i].score > sc[j].score \/ (sc[i].score = sc[j].score /\ i < j)

C6_TrueTopK ==
  (Suggested /\ VisitedDocs # <<>>) =>
    LET sc == Scored(Candidates(planned, Catalog), VisitedDocs)
    IN /\ DOMAIN resp.suggestions = {sc[i].country : i \in DOMAIN sc}
       /\ \A k \in DOMAIN resp.suggestions :
            LET l == resp.suggestions[k]
                own == {i \in DOMAIN sc : sc[i].country = k}
                pos == [j \in DOMAIN l |->
                          CHOOSE i \in own : sc[i].city = l[j].city]
                listed == {pos[j] : j \in DOMAIN l}
            IN /\ Len(l) = Min(8, Cardinality(own))
               /\ \A j \in DOMAIN l :
                    /\ \E i \in own : sc[i].city = l[j].city
                    /\ l[j].score = sc[pos[j]].score
               /\ \A j1, j2 \in DOMAIN l : j1 < j2 => Before(sc, pos[j1], pos[j2])
               /\ \A o \in own \ listed : \A i \in listed : Before(sc, i, o)

C6_Witness ==
  /\ Suggested /\ VisitedDocs # <<>>
  /\ AA \in DOMAIN resp.suggestions
  /\ Len(Catalog[AA]) > 8
  /\ LET l == resp.suggestions[AA]
     IN /\ Len(l) = 8
        /\ \E j \in 1..2 : l[j].city = Catalog[AA][Len(Catalog[AA])]
        /\ l[7].score = l[8].score
        /\ l[1].score > l[2].score

\* C7 as stated: the keys are planned countries with catalog cities, the
\* cities come from the catalog, and whenever no planned country has catalog
\* cities the result is a success with an empty mapping and a note.
C7_KeysAndEmptySuccess ==
  /\ Suggested =>
       \A k \in DOMAIN resp.suggestions :
         /\ k \in Range(planned) /\ k \in DOMAIN Catalog /\ Catalog[k] # <<>>
         /\ \A j \in DOMAIN resp.suggestions[k] :
              resp.suggestions[k][j].city \in Range(Catalog[k])
  /\ (resp.op = "suggestions" /\ NoPlannedCities) =>
       (Suggested /\ DOMAIN resp.suggestions = {} /\ "note" \in DOMAIN resp)

\* C7 amended: the keys are planned countries with catalog cities, the cities
\* come from the catalog, and when the catalog is not empty and no planned
\* country has catalog cities the result is a success with an empty mapping
\* and a note.
C7_KeysFromCatalog ==
  /\ Suggested =>
       \A k \in DOMAIN resp.suggestions :
         /\ k \in Range(planned) /\ k \in DOMAIN Catalog /\ Catalog[k] # <<>>
         /\ resp.suggestions[k] # <<>>
         /\ \A j \in DOMAIN resp.suggestions[k] :
              resp.suggestions[k][j].city \in Range(Catalog[k])
  /\ (resp.op = "suggestions" /\ ~CatalogEmpty /\ NoPlannedCities) =>
       (Suggested /\ DOMAIN resp.suggestions = {} /\ "note" \in DOMAIN resp)

C7_Witness ==
  /\ Suggested /\ planned = <<AA, BB>>
  /\ AA \notin DOMAIN Catalog
  /\ DOMAIN resp.suggestions = {BB}

CleanList(l) ==
  /\ \A i \in DOMAIN l : Strip(l[i]) # <<>>
  /\ \A i, j \in DOMAIN l : i # j => Strip(l[i]) # Strip(l[j])

C9_TripsCleanAndBadRequests400 ==
  [][/\ \A i \in DOMAIN trips' :
          /\ Strip(trips'[i].country) # <<>>
          /\ CleanList(trips'[i].cities)
          /\ CleanList(trips'[i].companions)
     /\ \A c \in CountryInputs, ci \in CityInputs, co \in CompanionInputs :
          (Strip(OrEmpty(c)) = <<>> \/ ~IsList(GetOrList(ci)) \/ ~IsList(GetOrList(co))) =>
            \A s \in StartInputs, e \in EndInputs, n \in NoteInputs :
              ApiAddTrip(c, s, e, ci, co, n) =>
                (resp'.status = 400 /\ UNCHANGED <<visited, planned, trips>>)]_vars

\* C10: right after a successful add-trip request for country C, C is in
\* visited and C is not in planned.
C10_VisitedNotPlanned ==
  (resp.op = "add_trip" /\ resp.status = 200) =>
    (Head(trips).country \in Range(visited) /\ Head(trips).country \notin Range(planned))

====
